---- MODULE Spec2Model ----
(***************************************************************************)
(* A model of rustywebserver (src/src/main.rs): one connection task        *)
(* running handle_request against a fixed filesystem, with a client that   *)
(* delivers the request in TCP segments.  Strings are TLA+ strings; the    *)
(* helpers below compute what the Rust str / Path methods compute.         *)
(***************************************************************************)
EXTENDS Integers, Sequences, FiniteSets, TLC

\* ------------------------------------------------------------------------
\* String helpers (Rust str methods)
\* ------------------------------------------------------------------------

\* str::find: 1-based index of the first occurrence of p in s, 0 for None
IndexOf(s, p) ==
    LET hits == {i \in 1..(Len(s) - Len(p) + 1) : SubSeq(s, i, i + Len(p) - 1) = p}
    IN  IF hits = {} THEN 0 ELSE CHOOSE i \in hits : \A j \in hits : i <= j

\* str::contains
Contains(s, p) == IndexOf(s, p) # 0

\* str::starts_with on strings
StrStartsWith(s, p) == Len(s) >= Len(p) /\ SubSeq(s, 1, Len(p)) = p

\* the part of s from index i on
From(s, i) == SubSeq(s, i, Len(s))

\* str::split(sep) for a one-character separator
RECURSIVE Split(_, _)
Split(s, sep) ==
    LET i == IndexOf(s, sep)
    IN  IF i = 0 THEN <<s>>
        ELSE <<SubSeq(s, 1, i - 1)>> \o Split(From(s, i + 1), sep)

\* str::split_once: <<>> for None, <<before, after>> for Some
SplitOnce(s, sep) ==
    LET i == IndexOf(s, sep)
    IN  IF i = 0 THEN <<>> ELSE <<SubSeq(s, 1, i - 1), From(s, i + 1)>>

\* str::lines: split at "\n", drop the "\r" of a "\r\n", no final empty line
RECURSIVE Lines(_)
Lines(s) ==
    IF s = "" THEN <<>>
    ELSE LET i == IndexOf(s, "\n")
             StripCR(l) == IF Len(l) > 0 /\ SubSeq(l, Len(l), Len(l)) = "\r"
                           THEN SubSeq(l, 1, Len(l) - 1) ELSE l
         IN  IF i = 0 THEN <<s>>
             ELSE <<StripCR(SubSeq(s, 1, i - 1))>> \o Lines(From(s, i + 1))

IsSpace(c) == c \in {" ", "\t", "\r", "\n"}

\* str::trim_start / trim_end / trim
RECURSIVE TrimStart(_)
TrimStart(s) ==
    IF Len(s) > 0 /\ IsSpace(SubSeq(s, 1, 1)) THEN TrimStart(From(s, 2)) ELSE s

RECURSIVE TrimEnd(_)
TrimEnd(s) ==
    IF Len(s) > 0 /\ IsSpace(SubSeq(s, Len(s), Len(s)))
    THEN TrimEnd(SubSeq(s, 1, Len(s) - 1)) ELSE s

Trim(s) == TrimEnd(TrimStart(s))

\* str::split_whitespace
RECURSIVE SplitWhitespace(_)
SplitWhitespace(s) ==
    LET t == TrimStart(s)
        ws == {i \in 1..Len(t) : IsSpace(SubSeq(t, i, i))}
        e == IF ws = {} THEN Len(t) + 1 ELSE CHOOSE i \in ws : \A j \in ws : i <= j
    IN  IF t = "" THEN <<>>
        ELSE <<SubSeq(t, 1, e - 1)>> \o SplitWhitespace(From(t, e))

\* str::trim_start_matches('/')
RECURSIVE TrimStartSlashes(_)
TrimStartSlashes(s) ==
    IF Len(s) > 0 /\ SubSeq(s, 1, 1) = "/" THEN TrimStartSlashes(From(s, 2)) ELSE s

DigitVal == ("0" :> 0) @@ ("1" :> 1) @@ ("2" :> 2) @@ ("3" :> 3) @@ ("4" :> 4)
            @@ ("5" :> 5) @@ ("6" :> 6) @@ ("7" :> 7) @@ ("8" :> 8) @@ ("9" :> 9)

IsDigits(s) == Len(s) > 0 /\ \A i \in 1..Len(s) : SubSeq(s, i, i) \in DOMAIN DigitVal

RECURSIVE DigitsValue(_)
DigitsValue(s) ==
    IF s = "" THEN 0
    ELSE 10 * DigitsValue(SubSeq(s, 1, Len(s) - 1)) + DigitVal[SubSeq(s, Len(s), Len(s))]

\* len.parse::<usize>().unwrap_or(0): digits with an optional leading "+"
ParseUsizeOr0(s) ==
    LET d == IF StrStartsWith(s, "+") THEN From(s, 2) ELSE s
    IN  IF IsDigits(d) THEN DigitsValue(d) ELSE 0

\* insertion into a HashMap<String, String>: the last write wins
Insert(m, k, v) == (k :> v) @@ m

EmptyMap == [k \in {} |-> ""]

\* ------------------------------------------------------------------------
\* Paths (std::path::Path) and the filesystem
\* ------------------------------------------------------------------------

\* Path::components of an absolute path, without the root component:
\* repeated separators and "." are dropped, ".." is kept
Components(p) ==
    SelectSeq(Split(p, "/"), LAMBDA c : c # "" /\ c # ".")

\* Path::starts_with / Path::ends_with compare whole components
IsPrefixSeq(a, b) == Len(a) <= Len(b) /\ SubSeq(b, 1, Len(a)) = a

PathStartsWith(p, base) == IsPrefixSeq(Components(base), Components(p))

PathEndsWith(p, child) ==
    LET a == Components(child)
        b == Components(p)
    IN  Len(a) <= Len(b) /\ SubSeq(b, Len(b) - Len(a) + 1, Len(b)) = a

\* Path::file_name: the last component unless it is "..": "" stands for None
FileName(p) ==
    LET c == Components(p)
    IN  IF c = <<>> \/ c[Len(c)] = ".." THEN "" ELSE c[Len(c)]

RECURSIVE JoinComponents(_)
JoinComponents(c) ==
    IF c = <<>> THEN "" ELSE "/" \o Head(c) \o JoinComponents(Tail(c))

PathString(c) == IF c = <<>> THEN "/" ELSE JoinComponents(c)

\* Path::parent: the path without its last component
Parent(p) ==
    LET c == Components(p)
    IN  IF c = <<>> THEN "/" ELSE PathString(SubSeq(c, 1, Len(c) - 1))

\* Path::extension of the file name: "" stands for None
RECURSIVE LastIndexOf(_, _)
LastIndexOf(s, c) ==
    IF s = "" THEN 0
    ELSE IF SubSeq(s, Len(s), Len(s)) = c THEN Len(s)
    ELSE LastIndexOf(SubSeq(s, 1, Len(s) - 1), c)

Extension(p) ==
    LET n == FileName(p)
        i == LastIndexOf(n, ".")
    IN  IF i <= 1 THEN "" ELSE From(n, i + 1)

\* the canonical root folder given on the command line
RootFolder == "/srv"

\* PathBuf::join of the root folder and a relative path
Join(base, rel) ==
    IF Len(base) > 0 /\ SubSeq(base, Len(base), Len(base)) = "/"
    THEN base \o rel ELSE base \o "/" \o rel

\* The filesystem: canonical absolute path -> entry
File(c, r) == [kind |-> "file", contents |-> c, readable |-> r]
Dir(r)     == [kind |-> "dir", contents |-> "", readable |-> r]

Fs ==
    ("/" :> Dir(TRUE)) @@
    ("/etc" :> Dir(TRUE)) @@
    ("/etc/passwd" :> File("root:x", TRUE)) @@
    ("/srv" :> Dir(TRUE)) @@
    ("/srv/index.html" :> File("hi", TRUE)) @@
    ("/srv/logo.gif" :> File("GIF8", TRUE)) @@
    ("/srv/secret.txt" :> File("s3", FALSE)) @@
    ("/srv/.hidden" :> File("h", TRUE)) @@
    ("/srv/pipe" :> [kind |-> "other", contents |-> "", readable |-> TRUE]) @@
    ("/srv/dir" :> Dir(TRUE)) @@
    ("/srv/dir/a.txt" :> File("aaa", TRUE)) @@
    ("/srv/dir/sub" :> Dir(TRUE)) @@
    ("/srv/locked" :> Dir(FALSE)) @@
    ("/srv/forbidden" :> Dir(TRUE)) @@
    ("/srv/forbidden/y" :> File("y", TRUE)) @@
    ("/srv/scripts" :> Dir(TRUE)) @@
    ("/srv/scripts/x" :> File("#!x", TRUE)) @@
    ("/srv/scripts/data" :> File("raw", TRUE))

\* the scripts directory holds one executable and one file without the
\* executable bit, which cannot be spawned
Executable == {"/srv/scripts/x"}

\* the components the kernel sees: only empty ones (repeated "/") vanish
RawComponents(p) == SelectSeq(Split(p, "/"), LAMBDA c : c # "")

\* What the kernel does with a path: walk the components, ".." steps up,
\* every component that is walked through must be a directory.
\* The result is the canonical components, or <<"!">> for an error.
RECURSIVE Walk(_, _)
Walk(done, todo) ==
    IF todo = <<>> THEN done
    ELSE IF PathString(done) \notin DOMAIN Fs \/ Fs[PathString(done)].kind # "dir"
         THEN <<"!">>
    ELSE IF Head(todo) = ".."
         THEN Walk(IF done = <<>> THEN done ELSE SubSeq(done, 1, Len(done) - 1), Tail(todo))
    ELSE IF Head(todo) = "."
         THEN Walk(done, Tail(todo))
    ELSE Walk(Append(done, Head(todo)), Tail(todo))

\* fs::canonicalize: the canonical path, "" stands for Err
Canonicalize(p) ==
    LET w == Walk(<<>>, RawComponents(p))
        q == PathString(w)
    IN  IF w = <<"!">> \/ q \notin DOMAIN Fs THEN ""
        ELSE IF SubSeq(p, Len(p), Len(p)) = "/" /\ Fs[q].kind # "dir" THEN ""
        ELSE q

\* Path::exists, Path::is_file, Path::is_dir (all follow the path with stat)
Exists(p) == Canonicalize(p) # ""
IsFile(p) == Exists(p) /\ Fs[Canonicalize(p)].kind = "file"
IsDir(p)  == Exists(p) /\ Fs[Canonicalize(p)].kind = "dir"

\* ------------------------------------------------------------------------
\* Pure functions of main.rs
\* ------------------------------------------------------------------------

forbidden_patterns == <<"forbidden", "restricted_area.txt", "scripts/../">>

\* is_forbidden_file without the canonicalize test: names only
is_forbidden_file_by_name(file_path, root_folder) ==
    \/ \E i \in DOMAIN forbidden_patterns : Contains(file_path, forbidden_patterns[i])
    \/ StrStartsWith(FileName(file_path), ".")
    \/ \E i \in DOMAIN forbidden_patterns :
          PathEndsWith(Parent(file_path), forbidden_patterns[i])

is_forbidden_file(file_path, root_folder) ==
    LET canonical_path == Canonicalize(file_path)
    IN  \/ canonical_path = ""
        \/ ~PathStartsWith(canonical_path, root_folder)
        \/ \E i \in DOMAIN forbidden_patterns : Contains(file_path, forbidden_patterns[i])
        \/ StrStartsWith(FileName(file_path), ".")
        \/ \E i \in DOMAIN forbidden_patterns :
              PathEndsWith(Parent(file_path), forbidden_patterns[i])

get_mime_type(path) ==
    LET ext == Extension(path)
    IN  CASE ext = "txt"  -> "text/plain; charset=utf-8"
          [] ext = "html" -> "text/html; charset=utf-8"
          [] ext = "css"  -> "text/css; charset=utf-8"
          [] ext = "js"   -> "text/javascript; charset=utf-8"
          [] ext \in {"jpg", "jpeg"} -> "image/jpeg"
          [] ext = "png"  -> "image/png"
          [] ext = "zip"  -> "application/zip"
          [] OTHER -> "application/octet-stream"

\* the header map built from the lines after the request line
RECURSIVE ParseHeaders(_, _)
ParseHeaders(lines, headers) ==
    IF lines = <<>> THEN headers
    ELSE LET kv == SplitOnce(Head(lines), ":")
         IN  ParseHeaders(Tail(lines),
                          IF kv = <<>> THEN headers
                          ELSE Insert(headers, Trim(kv[1]), Trim(kv[2])))

\* one pass "for param in s.split('&')" of execute_script over env_vars
RECURSIVE InsertParams(_, _)
InsertParams(params, env_vars) ==
    IF params = <<>> THEN env_vars
    ELSE LET kv == SplitOnce(Head(params), "=")
         IN  InsertParams(Tail(params),
                          IF kv = <<>> THEN env_vars
                          ELSE Insert(env_vars, "Query_" \o kv[1], kv[2]))

RECURSIVE InsertAll(_, _, _)
InsertAll(keys, m, env_vars) ==
    IF keys = {} THEN env_vars
    ELSE LET k == CHOOSE x \in keys : TRUE
         IN  InsertAll(keys \ {k}, m, Insert(env_vars, k, m[k]))

\* the environment execute_script builds; query_string and post_data are
\* Options: <<>> is None, <<s>> is Some(s)
ScriptEnv(headers, method, requested_path, query_string, post_data) ==
    LET e0 == InsertAll(DOMAIN headers, headers, EmptyMap)
        e1 == Insert(Insert(e0, "Method", method), "Path", requested_path)
        e2 == IF query_string = <<>> THEN e1
              ELSE InsertParams(Split(query_string[1], "&"), e1)
        e3 == IF method = "POST" /\ post_data # <<>>
              THEN InsertParams(Split(post_data[1], "&"), e2) ELSE e2
        e4 == IF post_data = <<>> THEN e3
              ELSE InsertParams(Split(post_data[1], "&"), e3)
    IN  e4

\* the header lines execute_script takes from stdout: up to the first empty line
RECURSIVE HeaderLines(_)
HeaderLines(lines) ==
    IF lines = <<>> \/ Head(lines) = "" THEN <<>>
    ELSE <<Head(lines)>> \o HeaderLines(Tail(lines))

\* body_start of execute_script, as a 0-based byte offset
BodyStart(stdout) ==
    LET i == IndexOf(stdout, "\n\n")
    IN  (IF i = 0 THEN 0 ELSE i - 1) + 2

\* send_response counting the terminating CRLF into Content-Length
ResponseLengthOff(http_version, status_code, status_text, content_type, body) ==
    [version |-> http_version, code |-> status_code, text |-> status_text,
     headers |-> <<"Content-Type: " \o content_type,
                   "Content-Length: " \o ToString(Len(body) + 2),
                   "Connection: close">>,
     body |-> body]

\* the response written by send_response
Response(http_version, status_code, status_text, content_type, body) ==
    [version |-> http_version, code |-> status_code, text |-> status_text,
     headers |-> <<"Content-Type: " \o content_type,
                   "Content-Length: " \o ToString(Len(body)),
                   "Connection: close">>,
     body |-> body]

\* the direct children of a directory, by name
Children(dir) ==
    {FileName(q) : q \in {q \in DOMAIN Fs : q # "/" /\ Parent(q) = dir}}

\* the orders in which read_dir may yield the entries of a set
Orders(S) ==
    {o \in [1..Cardinality(S) -> S] : \A i, j \in 1..Cardinality(S) : o[i] = o[j] => i = j}

\* the entry's path displayed without stripping the root folder
StripPrefixKeepsAll(p, base) == p

\* Path::strip_prefix(root_folder).unwrap_or(path), displayed
StripPrefix(p, base) ==
    IF PathStartsWith(p, base)
    THEN LET c == Components(p)
             r == SubSeq(c, Len(Components(base)) + 1, Len(c))
         IN  IF r = <<>> THEN "" ELSE From(JoinComponents(r), 2)
    ELSE p

RECURSIVE ListingItems(_, _, _)
ListingItems(names, path, root_folder) ==
    IF names = <<>> THEN ""
    ELSE "<li><a href=\"" \o StripPrefix(Join(path, Head(names)), root_folder)
         \o "\">" \o Head(names) \o "</a></li>"
         \o ListingItems(Tail(names), path, root_folder)

\* generate_directory_listing for the entries in the order read_dir gave
generate_directory_listing(names, path, root_folder) ==
    "<html><body><h1>Directory listing</h1><ul>"
    \o ListingItems(names, path, root_folder) \o "</ul></body></html>"

\* ------------------------------------------------------------------------
\* The client and the connection
\* ------------------------------------------------------------------------

\* size of the buffer of the first read
BufSize == 4096

\* number of connections the accept loop is followed for
MaxConns == 2

Methods == {"GET", "POST", "DELETE"}

\* request targets; "" gives a request line of two tokens.  The root folder
\* itself is not requested: read_dir may yield its entries in any order, and
\* the orders of its nine entries are too many to enumerate
Targets == {"/index.html", "/missing.txt", "/secret.txt", "/pipe", "/.hidden",
            "/.ghost", "/dir", "/dir/a.txt", "/locked", "/forbidden/x",
            "/forbidden/y", "/scripts/x", "/scripts/x?a=1&b=2", "/scripts/data",
            "/dir/../scripts/x", "/scripts/../index.html", "/../etc/passwd",
            "/../nope", "/logo.gif", ""}

\* POST bodies, and bytes a client may send after the body
Bodies == {"", "a=1&b=2", "a=9", "k:v"}
Extras == {"", "c=3"}

\* what a spawned script may do: exit code, standard output, standard error
ScriptOutcomes ==
    [exit : {0, 1}, stdout : {"Content-Type: text/plain\n\nout", "plain", ""},
     stderr : {"", "boom"}]

VARIABLES
    pc,         \* where the connection task is in handle_request
    client,     \* the request the client of this connection makes
    inflight,   \* segments the client has sent that have not arrived yet
    pending,    \* bytes that arrived on the socket and were not read yet
    eof,        \* the client has shut down its sending side
    peerOpen,   \* the client can still receive (writes succeed)
    req,        \* locals of handle_request set by parsing
    post_data,  \* Option<String>: <<>> or <<s>>
    status,     \* locals status_code, status_text of the branch taken
    wire,       \* responses written to the stream
    logged,     \* lines log_connection printed for this connection
    child,      \* processes spawned for this connection
    accepted,   \* connections accepted so far
    parked      \* earlier tasks that stay suspended and are followed no further

vars == <<pc, client, inflight, pending, eof, peerOpen, req, post_data, status,
          wire, logged, child, accepted, parked>>

NoClient == [method |-> "", target |-> "", body |-> "", extra |-> ""]
NoReq == [method |-> "", requested_path |-> "", query_string |-> <<>>,
          http_version |-> "", file_path |-> "", headers |-> EmptyMap]

\* the bytes of the request head the client sends
HeadOf(c) ==
    c.method \o " " \o c.target \o " HTTP/1.1\r\nHost: h\r\n"
    \o (IF c.method = "POST"
        THEN "Content-Length: " \o ToString(Len(c.body)) \o "\r\n" ELSE "")
    \o "\r\n"

Init ==
    /\ pc = "idle"
    /\ client = NoClient
    /\ inflight = <<>>
    /\ pending = ""
    /\ eof = FALSE
    /\ peerOpen = TRUE
    /\ req = NoReq
    /\ post_data = <<>>
    /\ status = <<>>
    /\ wire = <<>>
    /\ logged = <<>>
    /\ child = <<>>
    /\ accepted = 0
    /\ parked = 0

\* main: listener.accept() and tokio::spawn of handle_request; the client
\* has sent its request head and, in a second segment, the rest; a client
\* with method "" connects and sends nothing
Accept ==
    /\ pc = "idle"
    /\ accepted < MaxConns
    /\ accepted' = accepted + 1
    /\ \E m \in Methods \cup {""}, t \in Targets, b \in Bodies, x \in Extras,
          o \in BOOLEAN :
          /\ m # "POST" => (b = "" /\ x = "")
          /\ m = "" => (t = "" /\ o)
          /\ client' = [method |-> m, target |-> t, body |-> b, extra |-> x]
          /\ inflight' = IF m = "" THEN <<>>
                         ELSE <<HeadOf(client')>>
                              \o (IF b \o x = "" THEN <<>> ELSE <<b \o x>>)
          /\ peerOpen' = o
    /\ pc' = "read"
    /\ UNCHANGED <<pending, eof, req, post_data, status, wire, logged, child, parked>>

\* a segment arrives at the server's socket
Deliver ==
    /\ pc \notin {"idle", "exited"}
    /\ inflight # <<>>
    /\ pending' = pending \o Head(inflight)
    /\ inflight' = Tail(inflight)
    /\ UNCHANGED <<pc, client, eof, peerOpen, req, post_data, status, wire, logged, child, accepted, parked>>

\* the client shuts down its sending side after everything it sent arrived
Shutdown ==
    /\ pc \notin {"idle", "exited"}
    /\ inflight = <<>>
    /\ ~eof
    /\ eof' = TRUE
    /\ UNCHANGED <<pc, client, inflight, pending, peerOpen, req, post_data, status,
                   wire, logged, child, accepted, parked>>

\* ------------------------------------------------------------------------
\* handle_request
\* ------------------------------------------------------------------------

\* log_connection called with the status of another branch
LogLineAlwaysOk(method, requested_path, status_code, status_text) ==
    [method |-> method, path |-> requested_path, code |-> "200", text |-> "OK"]

\* the line log_connection prints
LogLine(method, requested_path, status_code, status_text) ==
    [method |-> method, path |-> requested_path,
     code |-> status_code, text |-> status_text]

\* the static-file branch writing a file without its last byte
StaticResponseShort(http_version, mime_type, contents) ==
    [version |-> http_version, code |-> "200", text |-> "OK",
     headers |-> <<"Content-Type: " \o mime_type,
                   "Content-Length: " \o ToString(Len(contents)),
                   "Connection: close">>,
     body |-> SubSeq(contents, 1, Len(contents) - 1)]

\* the response of the static-file branch
StaticResponse(http_version, mime_type, contents) ==
    [version |-> http_version, code |-> "200", text |-> "OK",
     headers |-> <<"Content-Type: " \o mime_type,
                   "Content-Length: " \o ToString(Len(contents)),
                   "Connection: close">>,
     body |-> contents]

\* the response execute_script writes
ScriptResponse(http_version, status_code, status_text, stdout) ==
    [version |-> http_version, code |-> status_code, text |-> status_text,
     headers |-> <<"Connection: close">> \o HeaderLines(Lines(stdout)),
     body |-> From(stdout, BodyStart(stdout) + 1)]

\* send_response(..).await? followed by the branch's log_connection:
\* a failed write returns the error from handle_request
Send(resp) ==
    IF peerOpen
    THEN /\ wire' = Append(wire, resp)
         /\ status' = <<resp.code, resp.text>>
         /\ pc' = "log"
    ELSE /\ pc' = "error"
         /\ UNCHANGED <<wire, status>>

\* a request line of fewer than three tokens answered with an error page
AbandonWithBadRequest ==
    Send(Response("HTTP/1.1", "400", "Bad Request", "text/plain",
                  "<html>400 Bad Request</html>"))

\* return Ok(()) on an empty read or a request line of fewer than three
\* tokens: nothing is written
Abandon ==
    /\ pc' = "closed"
    /\ UNCHANGED <<wire, status>>

content_length(headers) ==
    IF "Content-Length" \in DOMAIN headers
    THEN ParseUsizeOr0(headers["Content-Length"]) ELSE 0

\* stream.read(&mut buffer) and the parsing of the request line and headers
ReadRequest ==
    /\ pc = "read"
    /\ pending # "" \/ eof
    /\ LET n == IF Len(pending) < BufSize THEN Len(pending) ELSE BufSize
           request == SubSeq(pending, 1, n)
           lines == Lines(request)
           parts == IF lines = <<>> THEN <<>> ELSE SplitWhitespace(lines[1])
       IN  /\ pending' = From(pending, n + 1)
           /\ IF n = 0 \/ lines = <<>> \/ Len(parts) < 3
              THEN /\ Abandon
                   /\ req' = req
              ELSE LET full_path == parts[2]
                       idx == IndexOf(full_path, "?")
                       requested_path == IF idx = 0 THEN full_path
                                         ELSE SubSeq(full_path, 1, idx - 1)
                   IN  /\ req' = [method |-> parts[1],
                                  requested_path |-> requested_path,
                                  query_string |-> IF idx = 0 THEN <<>>
                                                   ELSE <<From(full_path, idx + 1)>>,
                                  http_version |-> parts[3],
                                  file_path |-> Join(RootFolder,
                                                     TrimStartSlashes(requested_path)),
                                  headers |-> ParseHeaders(Tail(lines), EmptyMap)]
                       /\ pc' = IF parts[1] = "POST" THEN "body1" ELSE "exists"
                       /\ UNCHANGED <<wire, status>>
    /\ UNCHANGED <<client, inflight, eof, peerOpen, post_data, logged, child, accepted, parked>>

\* stream.read_exact(&mut data).await?: waits for content_length bytes,
\* fails when the stream ends before them
ReadExact(next) ==
    LET len == content_length(req.headers)
    IN  /\ Len(pending) >= len \/ eof
        /\ IF Len(pending) >= len
           THEN /\ post_data' = <<SubSeq(pending, 1, len)>>
                /\ pending' = From(pending, len + 1)
                /\ pc' = next
           ELSE /\ post_data' = post_data
                /\ pending' = ""
                /\ pc' = "error"
        /\ UNCHANGED <<client, inflight, eof, peerOpen, req, status, wire, logged, child, accepted, parked>>

\* the first body read, before the existence check
ReadBody1 ==
    /\ pc = "body1"
    /\ ReadExact("exists")

\* if !file_path.exists() -> 404
CheckExists ==
    /\ pc = "exists"
    /\ IF ~Exists(req.file_path)
       THEN Send(Response(req.http_version, "404", "Not Found", "text/plain",
                          "<html>404 Not Found</html>"))
       ELSE /\ pc' = "forbidden"
            /\ UNCHANGED <<wire, status>>
    /\ UNCHANGED <<client, inflight, pending, eof, peerOpen, req, post_data, logged, child, accepted, parked>>

\* if is_forbidden_file(..) -> 403
CheckForbidden ==
    /\ pc = "forbidden"
    /\ IF is_forbidden_file(req.file_path, RootFolder)
       THEN Send(Response(req.http_version, "403", "Forbidden",
                          "text/plain; charset=utf-8", "<html>403 Forbidden</html>"))
       ELSE /\ pc' = IF req.method = "POST" THEN "body2" ELSE "dispatch"
            /\ UNCHANGED <<wire, status>>
    /\ UNCHANGED <<client, inflight, pending, eof, peerOpen, req, post_data, logged, child, accepted, parked>>

\* the second body read, after the two checks
ReadBody2 ==
    /\ pc = "body2"
    /\ ReadExact("dispatch")

\* the GET/POST dispatch and the final 405
Dispatch ==
    /\ pc = "dispatch"
    /\ LET fp == req.file_path
           v == req.http_version
           NotFound == Response(v, "404", "Not Found", "text/plain",
                                "<html>404 Not Found</html>")
           ServerError == Response(v, "500", "Internal Server Error", "text/plain",
                                   "<html>500 Internal Server Error</html>")
       IN  IF req.method \notin {"GET", "POST"}
           THEN Send(Response(v, "405", "Method Not Allowed", "text/plain",
                              "<html>405 Method Not Allowed</html>"))
           ELSE IF PathStartsWith(fp, Join(RootFolder, "forbidden"))
           THEN Send(Response(v, "403", "Forbidden", "text/plain; charset=utf-8",
                              "<html>403 Forbidden</html>"))
           ELSE IF PathStartsWith(fp, Join(RootFolder, "scripts")) /\ IsFile(fp)
           THEN /\ pc' = "script"
                /\ UNCHANGED <<wire, status>>
           ELSE IF IsDir(fp)
           THEN IF Fs[Canonicalize(fp)].readable
                THEN \E o \in Orders(Children(Canonicalize(fp))) :
                        Send(Response(v, "200", "OK", "text/html; charset=utf-8",
                                      generate_directory_listing(o, fp, RootFolder)))
                ELSE Send(ServerError)
           ELSE IF Exists(fp) /\ IsFile(fp)
           THEN IF Fs[Canonicalize(fp)].readable
                THEN Send(StaticResponse(v, get_mime_type(fp),
                                         Fs[Canonicalize(fp)].contents))
                ELSE Send(NotFound)
           ELSE Send(NotFound)
    /\ UNCHANGED <<client, inflight, pending, eof, peerOpen, req, post_data, logged, child, accepted, parked>>

\* execute_script and the match on its result in handle_request
ExecuteScript ==
    /\ pc = "script"
    /\ LET v == req.http_version
           env_vars == ScriptEnv(req.headers, req.method, req.requested_path,
                                 req.query_string, post_data)
           ServerError == Response(v, "500", "Internal Server Error", "text/plain",
                                   "<html>500 Internal Server Error</html>")
       IN  IF Canonicalize(req.file_path) \notin Executable
           THEN \* command.output() fails: Err(_) => send_response 500
                /\ Send(ServerError)
                /\ child' = child
           ELSE \E out \in ScriptOutcomes :
                  /\ child' = Append(child, [path |-> req.file_path, env |-> env_vars,
                                             stdin |-> "", outcome |-> out])
                  /\ IF BodyStart(out.stdout) > Len(out.stdout)
                     THEN \* &stdout[body_start..] is out of range: the task panics
                          /\ pc' = "panicked"
                          /\ UNCHANGED <<wire, status>>
                     ELSE IF out.exit = 0
                          THEN Send(ScriptResponse(v, "200", "OK", out.stdout))
                          ELSE Send(ScriptResponse(v, "500", "Internal Server Error",
                                                   out.stdout))
    /\ UNCHANGED <<client, inflight, pending, eof, peerOpen, req, post_data, logged, accepted, parked>>

\* log_connection(method, &stream, requested_path, status_code, status_text)
Log ==
    /\ pc = "log"
    /\ logged' = Append(logged, LogLine(req.method, req.requested_path,
                                        status[1], status[2]))
    /\ pc' = "done"
    /\ UNCHANGED <<client, inflight, pending, eof, peerOpen, req, post_data, status,
                   wire, child, accepted, parked>>

\* the task ends and the stream is dropped, which closes the connection
Close ==
    /\ pc \in {"done", "closed", "error", "panicked"}
    /\ pc' = "idle"
    /\ client' = NoClient
    /\ inflight' = <<>>
    /\ pending' = ""
    /\ eof' = FALSE
    /\ peerOpen' = TRUE
    /\ req' = NoReq
    /\ post_data' = <<>>
    /\ status' = <<>>
    /\ wire' = <<>>
    /\ logged' = <<>>
    /\ child' = <<>>
    /\ UNCHANGED <<accepted, parked>>

\* the points where a task stays suspended for as long as nothing comes
\* from outside: a read with no bytes on their way, a script that runs on
Suspended ==
    \/ /\ pc = "read"
       /\ pending = "" /\ inflight = <<>> /\ ~eof
    \/ /\ pc \in {"body1", "body2"}
       /\ inflight = <<>> /\ ~eof
       /\ Len(pending) < content_length(req.headers)
    \/ /\ pc = "script"
       /\ Canonicalize(req.file_path) \in Executable

\* main does not await the task it spawned: while that task stays suspended
\* the loop is back at listener.accept() for the next connection
Park ==
    /\ Suspended
    /\ parked' = parked + 1
    /\ pc' = "idle"
    /\ client' = NoClient
    /\ inflight' = <<>>
    /\ pending' = ""
    /\ eof' = FALSE
    /\ peerOpen' = TRUE
    /\ req' = NoReq
    /\ post_data' = <<>>
    /\ status' = <<>>
    /\ wire' = <<>>
    /\ logged' = <<>>
    /\ child' = <<>>
    /\ UNCHANGED accepted

\* listener.accept().await? returns an error: main returns it
AcceptFails ==
    /\ pc = "idle"
    /\ pc' = "exited"
    /\ UNCHANGED <<client, inflight, pending, eof, peerOpen, req, post_data, status,
                   wire, logged, child, accepted, parked>>

Next ==
    \/ Accept
    \/ AcceptFails
    \/ Park
    \/ Deliver
    \/ Shutdown
    \/ ReadRequest
    \/ ReadBody1
    \/ CheckExists
    \/ CheckForbidden
    \/ ReadBody2
    \/ Dispatch
    \/ ExecuteScript
    \/ Log
    \/ Close

Spec == Init /\ [][Next]_vars

\* ------------------------------------------------------------------------
\* Properties
\* ------------------------------------------------------------------------

\* the path part of a request target
TargetPath(t) ==
    LET i == IndexOf(t, "?") IN IF i = 0 THEN t ELSE SubSeq(t, 1, i - 1)

\* the query part of a request target, "" if there is none
TargetQuery(t) ==
    LET i == IndexOf(t, "?") IN IF i = 0 THEN "" ELSE From(t, i + 1)

\* the client's target path joined to the root folder
RequestedFile == Join(RootFolder, TrimStartSlashes(TargetPath(client.target)))

\* ".." segments resolved on the components alone, whatever exists on disk
RECURSIVE ResolveDots(_, _)
ResolveDots(done, todo) ==
    IF todo = <<>> THEN done
    ELSE IF Head(todo) = ".."
         THEN ResolveDots(IF done = <<>> THEN done ELSE SubSeq(done, 1, Len(done) - 1),
                          Tail(todo))
    ELSE ResolveDots(Append(done, Head(todo)), Tail(todo))

OutsideRoot(p) ==
    ~IsPrefixSeq(Components(RootFolder), ResolveDots(<<>>, Components(p)))

\* the request line has its three tokens
WellFormed == pc # "idle" /\ client.target # ""

Answered == wire # <<>>

\* C1: a GET or POST whose target resolves outside the root folder is
\* answered 403, whether or not the target exists.
C1_OutsideRootIs403 ==
    (WellFormed /\ client.method \in {"GET", "POST"} /\ OutsideRoot(RequestedFile)
     /\ Answered)
        => wire[1].code = "403"

ReservedOrHidden(p) ==
    \/ Contains(p, "forbidden")
    \/ Contains(p, "restricted_area.txt")
    \/ StrStartsWith(FileName(p), ".")

\* C2: a request whose path contains a reserved name or whose last
\* component starts with "." is answered 403, whether or not the path
\* exists: Forbidden wins over Missing.
C2_ForbiddenBeforeMissing ==
    (WellFormed /\ ReservedOrHidden(TargetPath(client.target)) /\ Answered)
        => wire[1].code = "403"

\* C3: a well-formed request with a method other than GET and POST is
\* answered 405 with an empty body for every target, and logged once.
C3_OtherMethodIs405 ==
    (WellFormed /\ client.method \notin {"GET", "POST"})
        => /\ Answered => (wire[1].code = "405" /\ wire[1].body = "")
           /\ pc = "done" => Len(logged) = 1

\* regular files inside the root folder, outside scripts/, whose path has
\* no forbidden name and whose own name is not hidden
ServableFiles ==
    {f \in DOMAIN Fs :
        /\ Fs[f].kind = "file"
        /\ PathStartsWith(f, RootFolder)
        /\ ~PathStartsWith(f, Join(RootFolder, "scripts"))
        /\ ~ReservedOrHidden(f)}

IsFileResponse(r, f) ==
    /\ r.code = "200"
    /\ r.body = Fs[f].contents
    /\ \E i \in DOMAIN r.headers :
          r.headers[i] = "Content-Length: " \o ToString(Len(Fs[f].contents))

\* C4 as stated: a GET of any such file is answered 200 with the file's
\* bytes and their length.
C4_EveryFileServed ==
    \A f \in ServableFiles :
        (client.method = "GET" /\ RequestedFile = f /\ Answered)
            => IsFileResponse(wire[1], f)

\* C4 amended: a GET of any such file that can be read is answered 200
\* with the file's bytes and their length in Content-Length.
C4_ReadableFileServed ==
    \A f \in ServableFiles :
        (client.method = "GET" /\ RequestedFile = f /\ Fs[f].readable /\ Answered)
            => (Len(wire) = 1 /\ IsFileResponse(wire[1], f))

C4_Witness ==
    /\ pc = "done"
    /\ client.method = "GET"
    /\ RequestedFile = "/srv/dir/a.txt"
    /\ wire[1].body = "aaa"

\* C5: a request path that resolves to a regular file under scripts/ is
\* never answered 200 with the file's own bytes.
C5_ScriptsNeverStatic ==
    LET c == Canonicalize(RequestedFile)
    IN  (WellFormed /\ c # "" /\ PathStartsWith(c, Join(RootFolder, "scripts"))
         /\ Fs[c].kind = "file" /\ Answered)
            => ~(wire[1].code = "200" /\ wire[1].body = Fs[c].contents)

\* C6: the exit status of the script decides the response: 0 gives 200,
\* anything else gives 500 with the script's standard error as the body.
C6_ExitStatusDecides ==
    (child # <<>> /\ Answered)
        => /\ child[1].outcome.exit = 0 => wire[1].code = "200"
           /\ child[1].outcome.exit # 0 =>
                 (wire[1].code = "500" /\ wire[1].body = child[1].outcome.stderr)

\* C7: once a client has sent one complete well-formed request, the task
\* answers it without needing further bytes: it is never left waiting in
\* a body read that the bytes that were sent cannot complete.
C7_CompleteRequestNeverWaits ==
    ~(/\ WellFormed
      /\ client.extra = ""
      /\ inflight = <<>>
      /\ ~eof
      /\ pc \in {"body1", "body2"}
      /\ Len(pending) < content_length(req.headers))

\* the Query_ variables a list of name=value pairs asks for
QueryVars(s) == InsertParams(Split(s, "&"), EmptyMap)

\* C8: the script's environment has Method, Path and one Query_<name>
\* for every pair of the query string and of the POST body, the body's
\* value winning for a name in both.
C8_ScriptEnvironment ==
    child # <<>> =>
        LET env == child[1].env
            want == QueryVars(client.body) @@ QueryVars(TargetQuery(client.target))
        IN  /\ "Method" \in DOMAIN env /\ env["Method"] = client.method
            /\ "Path" \in DOMAIN env /\ env["Path"] = TargetPath(client.target)
            /\ \A k \in DOMAIN want : k \in DOMAIN env /\ env[k] = want[k]

\* C9: every response is followed by exactly one log line, printed after
\* the response was written, with the request's method and path and the
\* status code and text that were written.
C9_LoggedOnceAsWritten ==
    /\ Len(wire) <= 1
    /\ Len(logged) <= Len(wire)
    /\ pc = "log" => (Len(wire) = 1 /\ logged = <<>>)
    /\ (pc \in {"done", "closed", "error", "panicked"} /\ Answered) =>
          /\ Len(logged) = 1
          /\ logged[1].method = client.method
          /\ logged[1].path = TargetPath(client.target)
          /\ logged[1].code = wire[1].code
          /\ logged[1].text = wire[1].text

C9_Witness ==
    /\ pc = "done"
    /\ Len(logged) = 1
    /\ wire[1].code = "500"
    /\ child # <<>>

HasHeader(r, h) == \E i \in DOMAIN r.headers : r.headers[i] = h

\* C10: every response has a Connection: close header, and every response
\* with a body that is not a script's has a Content-Length header equal to
\* the number of body bytes.
C10_ConnectionCloseAndLength ==
    \A i \in DOMAIN wire :
        /\ HasHeader(wire[i], "Connection: close")
        /\ (child = <<>> /\ wire[i].body # "") =>
              HasHeader(wire[i], "Content-Length: " \o ToString(Len(wire[i].body)))

C10_Witness ==
    /\ Answered
    /\ child = <<>>
    /\ wire[1].code = "200"
    /\ Len(wire[1].body) > 3

\* C11: the script's standard output is split at the first blank line:
\* the lines before it are the added headers and everything after it is
\* the body; without a blank line no header is added and the whole output
\* is the body, also when it is empty or one character long.
C11_StdoutSplit ==
    child # <<>> =>
        LET out == child[1].outcome.stdout
            i == IndexOf(out, "\n\n")
        IN  /\ pc # "panicked"
            /\ Answered =>
                  IF i # 0
                  THEN /\ wire[1].headers
                            = <<"Connection: close">> \o Lines(SubSeq(out, 1, i - 1))
                       /\ wire[1].body = From(out, i + 2)
                  ELSE /\ wire[1].headers = <<"Connection: close">>
                       /\ wire[1].body = out

\* C12: for a POST dispatched to a script the child reads the request
\* body from its standard input.
C12_BodyOnStdin ==
    (child # <<>> /\ client.method = "POST") => child[1].stdin = client.body

\* directories inside the root folder without a forbidden or hidden name
ListableDirs ==
    {d \in DOMAIN Fs :
        /\ Fs[d].kind = "dir"
        /\ PathStartsWith(d, RootFolder)
        /\ ~ReservedOrHidden(d)}

ChildPaths(d) == {q \in DOMAIN Fs : q # "/" /\ Parent(q) = d}

\* the anchor of the entry with canonical path c: href relative to the root
Anchor(c) ==
    "<a href=\"" \o From(c, Len(RootFolder) + 2) \o "\">" \o FileName(c) \o "</a>"

\* number of occurrences of p in s
RECURSIVE CountOf(_, _)
CountOf(s, p) ==
    LET i == IndexOf(s, p)
    IN  IF i = 0 THEN 0 ELSE 1 + CountOf(From(s, i + Len(p)), p)

\* C13: a GET of a directory inside the root that is not forbidden is
\* answered 200 with a text/html type and exactly one anchor per direct
\* child, its href the child's path relative to the root and its text the
\* child's name; when the directory cannot be read the answer is 500.
C13_DirectoryListing ==
    \A d \in ListableDirs :
        (client.method = "GET" /\ RequestedFile = d /\ Answered) =>
            IF Fs[d].readable
            THEN /\ wire[1].code = "200"
                 /\ \E i \in DOMAIN wire[1].headers :
                       StrStartsWith(wire[1].headers[i], "Content-Type: text/html")
                 /\ \A c \in ChildPaths(d) : CountOf(wire[1].body, Anchor(c)) = 1
                 /\ CountOf(wire[1].body, "<a ") = Cardinality(ChildPaths(d))
            ELSE wire[1].code = "500"

C13_Witness ==
    /\ pc = "done"
    /\ client.method = "GET"
    /\ RequestedFile = "/srv/dir"
    /\ wire[1].code = "200"
    /\ CountOf(wire[1].body, "<a ") = 2

\* C14: the listing of a directory other than the root folder has a
\* parent-navigation entry "..".
C14_ParentEntry ==
    (client.method = "GET" /\ IsDir(RequestedFile)
     /\ Canonicalize(RequestedFile) # RootFolder
     /\ Answered /\ wire[1].code = "200")
        => Contains(wire[1].body, ">..</a>")

\* C15: no error stops the accept loop: after a failed task and after a
\* failed accept call main is still there to accept connections.
C15_AcceptLoopNeverStops == pc # "exited"

\* C16: while the task of one connection stays suspended, another
\* connection is accepted and its complete well-formed request is answered:
\* its task is not left waiting for bytes that nobody will send.
C16_OthersServedMeanwhile ==
    ~(/\ parked > 0
      /\ WellFormed
      /\ client.extra = ""
      /\ inflight = <<>>
      /\ ~eof
      /\ pc \in {"body1", "body2"}
      /\ Len(pending) < content_length(req.headers))

\* the content type the table gives for an extension
TableType(ext) ==
    CASE ext \in {"html", "htm"} -> "text/html"
      [] ext = "css" -> "text/css"
      [] ext = "js" -> "text/javascript"
      [] ext = "txt" -> "text/plain"
      [] ext = "json" -> "application/json"
      [] ext \in {"jpg", "jpeg"} -> "image/jpeg"
      [] ext = "png" -> "image/png"
      [] ext = "gif" -> "image/gif"
      [] ext = "zip" -> "application/zip"
      [] OTHER -> "application/octet-stream"

\* C17: the content type of a served file is the one the table gives for
\* its extension.
C17_MimeTable ==
    \A f \in ServableFiles :
        (client.method = "GET" /\ RequestedFile = f /\ Answered /\ wire[1].code = "200")
            => \E i \in DOMAIN wire[1].headers :
                  StrStartsWith(wire[1].headers[i],
                                "Content-Type: " \o TableType(Extension(f)))

\* the client sent nothing or a request line of fewer than three tokens
Malformed == pc \notin {"idle", "exited"} /\ client.target = ""

\* C18: a connection whose first line has fewer than three tokens, or that
\* sent nothing, is abandoned: no response, no log line, no process, and the
\* task returns without an error.
C18_MalformedAbandoned ==
    Malformed =>
        /\ wire = <<>>
        /\ logged = <<>>
        /\ child = <<>>
        /\ pc \in {"read", "closed"}

C18_Witness ==
    /\ pc = "closed"
    /\ client.method = "GET"
    /\ client.target = ""
    /\ pending = ""

\* C19: only the lines between the request line and the first blank line
\* become headers: the header map has the names the client sent as headers
\* and the Content-Length it sent.
C19_OnlyHeadLinesAreHeaders ==
    (WellFormed /\ pc # "read") =>
        /\ DOMAIN req.headers \subseteq {"Host", "Content-Length"}
        /\ content_length(req.headers)
              = IF client.method = "POST" THEN Len(client.body) ELSE 0

InsideRoot(p) ==
    LET c == Canonicalize(p) IN c # "" /\ PathStartsWith(c, RootFolder)

\* C20: the task gets to the file read, the listing or the script, and a
\* 200 is written, only for a target whose canonical path is inside the
\* root folder.
C20_Containment ==
    (\/ pc \in {"body2", "dispatch", "script"}
     \/ child # <<>>
     \/ (Answered /\ wire[1].code = "200"))
        => InsideRoot(RequestedFile)

C20_Witness ==
    /\ pc = "done"
    /\ client.target = "/dir/../scripts/x"
    /\ wire[1].code = "200"

====
